---- MODULE Spec2Model ----
(***************************************************************************)
(* The fetch-and-cache access layer of src/tools/api.py: six query         *)
(* operations over one process-wide cache (src/data/cache.py), the         *)
(* backward pagination walk of get_insider_trades / get_company_news and   *)
(* the tenacity retry decorator.                                           *)
(*                                                                         *)
(* Dates are ISO strings in the code.  A day string "YYYY-MM-DD" is an     *)
(* integer here, a record timestamp "YYYY-MM-DDTHH:MM" is the pair         *)
(* <<day, tod>>; Python's string comparison of such values is the          *)
(* lexicographic order of the pair, and .split("T")[0] keeps the day.      *)
(***************************************************************************)
EXTENDS Integers, Sequences, FiniteSets, TLC

\* ---------------------------------------------------------------- bounds
MaxDay == 3          \* days are 1..MaxDay
MaxAttempts == 2     \* attempts of one call explored (the decorator has no cap)
MaxRequests == 2     \* page requests of one attempt explored (the loop has no cap)
MaxCalls == 2        \* query calls made in one behaviour

\* ------------------------------------------------------ program constants
NoDate == 0          \* start_date = None (falsy, rendered 'none' in the key)
CapKeyLimit == 10    \* the limit written into get_market_cap's cache key
CapFetchLimit == 1   \* the limit get_market_cap sends to the provider

Procs == {"w1", "w2"}                \* two concurrent callers
Ticker == "T"
Days == 1..MaxDay
StartDays == {1, 2}                  \* start dates the callers pass
\* record timestamps: a day (no time part), or a later time on a start day
Stamps == {<<d, 0>> : d \in Days} \cup {<<d, 1>> : d \in StartDays}

Ops == {"get_prices", "get_financial_metrics", "search_line_items",
        "get_insider_trades", "get_company_news", "get_market_cap"}
Paginated == {"get_insider_trades", "get_company_news"}

\* HTTP status of a response; 0 stands for requests.get raising (no response).
Statuses == {0, 200, 404, 500}

\* ------------------------------------------------------------ pure helpers
RECURSIVE SeqsUpTo(_, _)
SeqsUpTo(S, n) ==
    IF n = 0 THEN {<<>>}
    ELSE LET shorter == SeqsUpTo(S, n - 1)
         IN  shorter \cup {Append(s, x) : s \in {t \in shorter : Len(t) = n - 1}, x \in S}

\* Python string order on timestamps
StampLE(a, b) == a[1] < b[1] \/ (a[1] = b[1] /\ a[2] <= b[2])

\* min(trade.filing_date for trade in insider_trades)
MinStamp(page) ==
    LET dates == {page[i].date : i \in 1..Len(page)}
    IN  CHOOSE m \in dates : \A d \in dates : StampLE(m, d)

\* a faulty SplitT: the time part is kept
KeepTime(stamp) == stamp

\* .split("T")[0]: the day string, a timestamp without time part
SplitT(stamp) == <<stamp[1], 0>>

\* a day string as a timestamp
Day(d) == <<d, 0>>

\* a faulty LastPage: a short page does not end the walk
LastPageNoShortStop(start, limit, page) == start = NoDate

\* a faulty LastPage: an unset start_date does not end the loop
LastPageIgnoresStart(start, limit, page) == Len(page) < limit

\* the loop's exit test after a page was appended:
\* "if not start_date or len(insider_trades) < limit: break"
LastPage(start, limit, page) == start = NoDate \/ Len(page) < limit

\* all_trades after extending it once per page
RECURSIVE Flatten(_)
Flatten(pgs) == IF pgs = <<>> THEN <<>> ELSE Flatten(SubSeq(pgs, 1, Len(pgs) - 1)) \o pgs[Len(pgs)]

\* bool(market_cap): the optional field is <<>> for None and <<x>> for a number
Truthy(mc) == mc # <<>> /\ mc[1] # 0

\* ----------------------------------------------------------- call arguments
\* One record shape for every operation; a parameter an operation does not
\* take is held at its placeholder (NoDate, "-", 0).
Arg(s, e, per, lim) == [ticker |-> Ticker, start |-> s, end |-> e, period |-> per, limit |-> lim]

\* f-string cache keys
LineItemsKey(a) ==
    [fam |-> "line-items", ticker |-> a.ticker, start |-> NoDate, end |-> a.end,
     period |-> a.period, limit |-> 0]

MarketCapKey(a) ==
    [fam |-> "metrics", ticker |-> a.ticker, start |-> NoDate, end |-> a.end,
     period |-> "ttm", limit |-> CapKeyLimit]

KeyOf(op, a) ==
    CASE op = "get_prices" ->
           [fam |-> "prices", ticker |-> a.ticker, start |-> a.start, end |-> a.end,
            period |-> "-", limit |-> 0]
      [] op = "get_financial_metrics" ->
           [fam |-> "metrics", ticker |-> a.ticker, start |-> NoDate, end |-> a.end,
            period |-> a.period, limit |-> a.limit]
      [] op = "search_line_items" -> LineItemsKey(a)
      [] op = "get_insider_trades" ->
           [fam |-> "insider-trades", ticker |-> a.ticker, start |-> a.start, end |-> a.end,
            period |-> "-", limit |-> a.limit]
      [] op = "get_company_news" ->
           [fam |-> "company-news", ticker |-> a.ticker, start |-> a.start, end |-> a.end,
            period |-> "-", limit |-> a.limit]
      [] op = "get_market_cap" -> MarketCapKey(a)

\* what the operation asks the provider for (URL / body parameters)
RequestOf(op, a) ==
    CASE op = "get_prices" ->
           [fam |-> "prices", ticker |-> a.ticker, start |-> a.start, end |-> a.end,
            period |-> "-", limit |-> 0]
      [] op = "get_financial_metrics" ->
           [fam |-> "metrics", ticker |-> a.ticker, start |-> NoDate, end |-> a.end,
            period |-> a.period, limit |-> a.limit]
      [] op = "search_line_items" ->
           [fam |-> "line-items", ticker |-> a.ticker, start |-> NoDate, end |-> a.end,
            period |-> a.period, limit |-> a.limit]
      [] op = "get_insider_trades" ->
           [fam |-> "insider-trades", ticker |-> a.ticker, start |-> a.start, end |-> a.end,
            period |-> "-", limit |-> a.limit]
      [] op = "get_company_news" ->
           [fam |-> "company-news", ticker |-> a.ticker, start |-> a.start, end |-> a.end,
            period |-> "-", limit |-> a.limit]
      [] op = "get_market_cap" ->
           [fam |-> "metrics", ticker |-> a.ticker, start |-> NoDate, end |-> a.end,
            period |-> "ttm", limit |-> CapFetchLimit]

\* @retry decorates every operation but search_line_items, whose line 109
\* calls retry(...) as a statement and discards the decorator.
Decorated(op) == op # "search_line_items"

\* ------------------------------------------------------------------ state
VARIABLES
    cache,     \* _cache: key -> [batch, typed]; req (the request that produced
               \* the batch) and whole (the pages the writer fetched) are history
    frame,     \* per caller: position and locals of the running call
    obs,       \* per caller: history of the running call
    ncalls     \* calls made so far

vars == <<cache, frame, obs, ncalls>>

ListResult(s) == [kind |-> "list", val |-> s]
FloatResult(x) == [kind |-> "float", val |-> <<x>>]
NoneResult == [kind |-> "none", val |-> <<>>]

NoArg == Arg(NoDate, NoDate, "-", 0)

Init ==
    /\ cache = <<>>
    /\ frame = [p \in Procs |->
                 [pc |-> "idle", op |-> "-", args |-> NoArg, attempts |-> 0,
                  records |-> <<>>, current_end_date |-> Day(NoDate), result |-> NoneResult,
                  df |-> <<>>]]
    /\ obs = [p \in Procs |->
                 [status |-> -1, pages |-> <<>>, asked |-> <<>>,
                  repeat |-> FALSE, prior |-> NoneResult, warm |-> FALSE,
                  before |-> <<>>, lost |-> FALSE]]
    /\ ncalls = 0

\* ------------------------------------------------------- provider answers
\* A response: its status, whether response.json() and the pydantic response
\* model accept the body, and the decoded record list.  Status 0 (no
\* response) carries no body.
Responses(sts, pages) ==
    {[status |-> 0, ok |-> FALSE, page |-> <<>>]}
    \cup {[status |-> s, ok |-> FALSE, page |-> <<>>] : s \in sts \ {0}}
    \cup {[status |-> s, ok |-> TRUE, page |-> pg] : s \in sts \ {0}, pg \in pages}

Row(d) == [date |-> <<d, 0>>]
PricePages == {<<>>, <<Row(1)>>, <<Row(2), Row(1)>>}
MetricPages ==
    {<<>>} \cup {<<[date |-> <<1, 0>>, market_cap |-> mc]>> : mc \in {<<>>, <<0>>, <<5>>}}
LineItemPages == {<<>>, <<Row(1)>>}
DayPages == {<<>>, <<Row(2)>>, <<Row(1)>>}

\* arguments the callers of Next pass
Ends == {2}
PriceArgs == {Arg(1, e, "-", 0) : e \in Ends}
MetricArgs == {Arg(NoDate, e, per, lim) : e \in Ends, per \in {"ttm", "annual"}, lim \in {1, CapKeyLimit}}
TradeArgs == {Arg(s, e, "-", lim) : s \in {NoDate, 1}, e \in Ends, lim \in {1, 2}}
CapArgs == {Arg(NoDate, e, "-", 0) : e \in Ends}
ArgsOf(op) ==
    CASE op = "get_prices" -> PriceArgs
      [] op \in {"get_financial_metrics", "search_line_items"} -> MetricArgs
      [] op \in Paginated -> TradeArgs
      [] op = "get_market_cap" -> CapArgs

\* ---------------------------------------------------------- frame updates
\* an exception leaves the function: tenacity re-runs a decorated function,
\* an undecorated one lets it reach the caller
Raise(f) == [f EXCEPT !.pc = IF Decorated(f.op) THEN "backoff" ELSE "raised"]
Return(f, res) == [f EXCEPT !.pc = "returned", !.result = res]

\* one request went out and was answered by r
Sent(o, f, r) ==
    [o EXCEPT !.status = r.status,
              !.asked = Append(@, f.current_end_date),
              !.pages = IF r.status # 0 /\ r.ok THEN Append(@, r.page) ELSE @]

\* ---------------------------------------------------------------- actions
\* a caller invokes operation o with arguments a
Call(p, o, a) ==
    /\ frame[p].pc \in {"idle", "returned", "raised", "keyerror"}
    /\ ncalls < MaxCalls
    /\ ncalls' = ncalls + 1
    /\ LET again == frame[p].pc = "returned" /\ frame[p].op = o /\ frame[p].args = a
       IN  obs' = [obs EXCEPT ![p] =
                     [status |-> -1, pages |-> <<>>, asked |-> <<>>,
                      repeat |-> again,
                      prior |-> IF again THEN frame[p].result ELSE NoneResult,
                      warm |-> o = "get_market_cap" /\
                               \E k \in DOMAIN cache : cache[k].req = RequestOf(o, a),
                      before |-> cache, lost |-> FALSE]]
    /\ frame' = [frame EXCEPT ![p] =
                   [pc |-> "lookup", op |-> o, args |-> a, attempts |-> 1,
                    records |-> <<>>, current_end_date |-> Day(NoDate), result |-> NoneResult,
                  df |-> <<>>]]
    /\ UNCHANGED cache

\* "if cache_key in _cache: return [Model(**x) for x in _cache[cache_key]]"
\* The cached list holds the typed records insert() was given, and ** needs a
\* mapping: a non-empty hit raises TypeError.  get_market_cap subscripts the
\* constructed record and the resulting list, so its hit raises on an empty
\* list too.
CacheLookup(p) ==
    LET f == frame[p]
        k == KeyOf(f.op, f.args)
    IN  /\ f.pc = "lookup"
        /\ frame' = [frame EXCEPT ![p] =
             IF k \in DOMAIN cache
             THEN IF f.op = "get_market_cap" THEN Raise(f)
                  ELSE IF cache[k].batch = <<>> THEN Return(f, ListResult(<<>>))
                  ELSE IF cache[k].typed THEN Raise(f)
                  ELSE Return(f, ListResult(cache[k].batch))
             ELSE [f EXCEPT !.pc = "fetch", !.records = <<>>,
                            !.current_end_date = Day(f.args.end)]]
        /\ UNCHANGED <<cache, obs, ncalls>>

get_prices(p, r) ==
    LET f == frame[p]
    IN  /\ f.pc = "fetch" /\ f.op = "get_prices"
        /\ obs' = [obs EXCEPT ![p] = Sent(@, f, r)]
        /\ frame' = [frame EXCEPT ![p] =
             IF r.status = 0 THEN Raise(f)
             ELSE IF r.status = 404 THEN Return(f, ListResult(<<>>))
             ELSE IF ~r.ok THEN Raise(f)
             ELSE IF r.page = <<>> THEN Return(f, ListResult(<<>>))
             ELSE [f EXCEPT !.pc = "insert", !.records = r.page]]
        /\ UNCHANGED <<cache, ncalls>>

get_financial_metrics(p, r) ==
    LET f == frame[p]
    IN  /\ f.pc = "fetch" /\ f.op = "get_financial_metrics"
        /\ obs' = [obs EXCEPT ![p] = Sent(@, f, r)]
        /\ frame' = [frame EXCEPT ![p] =
             IF r.status = 0 \/ ~r.ok THEN Raise(f)
             ELSE IF r.page = <<>> THEN Return(f, ListResult(<<>>))
             ELSE [f EXCEPT !.pc = "insert", !.records = r.page]]
        /\ UNCHANGED <<cache, ncalls>>

search_line_items(p, r) ==
    LET f == frame[p]
    IN  /\ f.pc = "fetch" /\ f.op = "search_line_items"
        /\ obs' = [obs EXCEPT ![p] = Sent(@, f, r)]
        /\ frame' = [frame EXCEPT ![p] =
             IF r.status = 0 \/ ~r.ok THEN Raise(f)
             ELSE [f EXCEPT !.pc = "insert", !.records = r.page]]
        /\ UNCHANGED <<cache, ncalls>>

\* a faulty ReachedStart: a cursor equal to start_date does not end the loop
PassedStart(cur, start) == StampLE(cur, Day(start)) /\ cur # Day(start)

\* "if current_end_date <= start_date: break"
ReachedStart(cur, start) == StampLE(cur, Day(start))

\* after the while loop: "if not all_trades: return []", else insert
AfterLoop(f) ==
    IF f.records = <<>> THEN Return(f, ListResult(<<>>)) ELSE [f EXCEPT !.pc = "insert"]

\* a faulty extend: the new page goes in front of the accumulated records
extend_front(all_trades, page) == page \o all_trades

\* "all_trades.extend(insider_trades)": the page goes after the accumulated
\* records, in the order the provider gave
extend(all_trades, page) == all_trades \o page

\* a faulty PageStep: the records accumulated so far are written to the cache
\* after every page
PageStepWritesEachPage(p, r) ==
    LET f == frame[p]
        g == [f EXCEPT !.records = f.records \o r.page]
        cur == SplitT(MinStamp(r.page))
    IN  /\ f.pc = "fetch"
        /\ Len(obs[p].asked) < MaxRequests
        /\ obs' = [obs EXCEPT ![p] = Sent(@, f, r)]
        /\ frame' = [frame EXCEPT ![p] =
             IF r.status = 0 \/ ~r.ok THEN Raise(f)
             ELSE IF r.page = <<>> THEN AfterLoop(f)
             ELSE IF LastPage(f.args.start, f.args.limit, r.page) THEN AfterLoop(g)
             ELSE IF ReachedStart(cur, f.args.start) THEN AfterLoop([g EXCEPT !.current_end_date = cur])
             ELSE [g EXCEPT !.current_end_date = cur]]
        /\ cache' = IF r.status = 0 \/ ~r.ok \/ r.page = <<>> THEN cache
                    ELSE (KeyOf(f.op, f.args) :>
                            [batch |-> g.records, typed |-> TRUE,
                             req |-> RequestOf(f.op, f.args), whole |-> g.records]) @@ cache
        /\ UNCHANGED ncalls

\* one iteration of the while True loop
PageStep(p, r) ==
    LET f == frame[p]
        g == [f EXCEPT !.records = extend(f.records, r.page)]
        cur == SplitT(MinStamp(r.page))
    IN  /\ f.pc = "fetch"
        /\ Len(obs[p].asked) < MaxRequests
        /\ obs' = [obs EXCEPT ![p] = Sent(@, f, r)]
        /\ frame' = [frame EXCEPT ![p] =
             IF r.status = 0 \/ ~r.ok THEN Raise(f)
             ELSE IF r.page = <<>> THEN AfterLoop(f)
             ELSE IF LastPage(f.args.start, f.args.limit, r.page) THEN AfterLoop(g)
             ELSE IF ReachedStart(cur, f.args.start) THEN AfterLoop([g EXCEPT !.current_end_date = cur])
             ELSE [g EXCEPT !.current_end_date = cur]]
        /\ UNCHANGED <<cache, ncalls>>

get_insider_trades(p, r) == frame[p].op = "get_insider_trades" /\ PageStep(p, r)

get_company_news(p, r) == frame[p].op = "get_company_news" /\ PageStep(p, r)

get_market_cap(p, r) ==
    LET f == frame[p]
    IN  /\ f.pc = "fetch" /\ f.op = "get_market_cap"
        /\ obs' = [obs EXCEPT ![p] = Sent(@, f, r)]
        /\ frame' = [frame EXCEPT ![p] =
             IF r.status = 0 \/ ~r.ok THEN Raise(f)
             ELSE IF r.page = <<>> THEN Raise(f)
             ELSE IF ~Truthy(r.page[1].market_cap) THEN Return(f, ListResult(<<>>))
             ELSE [f EXCEPT !.pc = "insert", !.records = r.page]]
        /\ UNCHANGED <<cache, ncalls>>

\* a faulty Stored: the write stops one record short
StoredTorn(records) ==
    IF Len(records) > 1 THEN SubSeq(records, 1, Len(records) - 1) ELSE records

\* what _cache.insert(cache_key, records) stores
Stored(records) == records

\* a faulty CachePut: a cache of one slot, the new entry evicts the others
CachePutOneSlot(c, k, entry) == k :> entry

\* insert() on Cache(maxsize=0), the unbounded cache: the entry is added or
\* replaced, every other entry stays
CachePut(c, k, entry) == (k :> entry) @@ c

\* "_cache.insert(cache_key, records); return records"
Insert(p) ==
    LET f == frame[p]
        k == KeyOf(f.op, f.args)
    IN  /\ f.pc = "insert"
        /\ cache' = CachePut(cache, k,
                              [batch |-> Stored(f.records), typed |-> TRUE,
                               req |-> RequestOf(f.op, f.args),
                               whole |-> Flatten(obs[p].pages)])
        /\ frame' = [frame EXCEPT ![p] =
             Return(f, IF f.op = "get_market_cap"
                       THEN FloatResult(f.records[1].market_cap[1])
                       ELSE ListResult(f.records))]
        /\ UNCHANGED <<obs, ncalls>>

\* a faulty Retry: the loop is resumed where it failed, with the records and
\* the cursor of the failed attempt
RetryResumes(p) ==
    LET f == frame[p]
    IN  /\ f.pc = "backoff"
        /\ f.attempts < MaxAttempts
        /\ frame' = [frame EXCEPT ![p] =
             [f EXCEPT !.pc = IF f.op \in Paginated /\ obs[p].asked # <<>>
                              THEN "fetch" ELSE "lookup",
                       !.attempts = @ + 1]]
        /\ obs' = [obs EXCEPT ![p] = [@ EXCEPT !.status = -1, !.pages = <<>>, !.asked = <<>>,
                                                !.before = cache,
                                                !.lost = @ \/ obs[p].pages # <<>>]]
        /\ UNCHANGED <<cache, ncalls>>

\* tenacity calls the function again after the wait: a new invocation, none
\* of the failed one's locals
Retry(p) ==
    LET f == frame[p]
    IN  /\ f.pc = "backoff"
        /\ f.attempts < MaxAttempts
        /\ frame' = [frame EXCEPT ![p] =
             [f EXCEPT !.pc = "lookup", !.attempts = @ + 1, !.records = <<>>,
                       !.current_end_date = Day(NoDate)]]
        /\ obs' = [obs EXCEPT ![p] = [@ EXCEPT !.status = -1, !.pages = <<>>, !.asked = <<>>,
                                                !.before = cache,
                                                !.lost = @ \/ obs[p].pages # <<>>]]
        /\ UNCHANGED <<cache, ncalls>>

\* pd.to_datetime on an ISO timestamp: the instant as a number (two instants
\* a day are told apart)
to_datetime(stamp) == stamp[1] * 2 + stamp[2]

\* pd.DataFrame([p.model_dump() for p in prices]) with the "Date" column set
\* as index: one new row per record, in list order
DataFrame(prices) ==
    [i \in 1..Len(prices) |-> [Date |-> to_datetime(prices[i].date), time |-> prices[i].date]]

RECURSIVE InsertRow(_, _)
InsertRow(row, sorted) ==
    IF sorted = <<>> THEN <<row>>
    ELSE IF row.Date < Head(sorted).Date THEN <<row>> \o sorted
    ELSE <<Head(sorted)>> \o InsertRow(row, Tail(sorted))

\* df.sort_index(inplace=True): the rows of the frame in ascending Date
RECURSIVE sort_index(_)
sort_index(df) ==
    IF df = <<>> THEN <<>>
    ELSE InsertRow(df[Len(df)], sort_index(SubSeq(df, 1, Len(df) - 1)))

RECURSIVE SortedByTime(_)
\* a faulty SourceAfter: the list itself is sorted in place, oldest first
SortedByTime(prices) ==
    IF prices = <<>> THEN <<>>
    ELSE LET rest == SortedByTime(SubSeq(prices, 1, Len(prices) - 1))
             x == prices[Len(prices)]
             n == Cardinality({i \in 1..Len(rest) : StampLE(rest[i].date, x.date)})
         IN  SubSeq(rest, 1, n) \o <<x>> \o SubSeq(rest, n + 1, Len(rest))

\* the list handed to prices_to_df, after the call: the frame is built from
\* model_dump() copies and every in-place step works on the frame
SourceAfter(prices) == prices

\* get_price_data: prices_to_df applied to the list get_prices returned, which
\* is the list object the cache holds under the call's key.  A frame built
\* from no records has no "time" column: df["time"] raises KeyError.
prices_to_df(p) ==
    LET f == frame[p]
        k == KeyOf(f.op, f.args)
        prices == f.result.val
    IN  /\ f.pc = "returned" /\ f.op = "get_prices" /\ f.df = <<>>
        /\ frame' = [frame EXCEPT ![p] =
             IF prices = <<>> THEN [f EXCEPT !.pc = "keyerror"]
             ELSE [f EXCEPT !.df = sort_index(DataFrame(prices)),
                            !.result = ListResult(SourceAfter(prices))]]
        /\ cache' = [j \in DOMAIN cache |->
                       IF j = k /\ prices # <<>> /\ cache[j].batch = prices
                       THEN [cache[j] EXCEPT !.batch = SourceAfter(prices)]
                       ELSE cache[j]]
        /\ UNCHANGED <<obs, ncalls>>

\* One caller issues its calls one after the other.
PriceResponses == Responses(Statuses, PricePages)
MetricResponses == Responses(Statuses, MetricPages)
LineItemResponses == Responses(Statuses, LineItemPages)
DayResponses == Responses(Statuses, DayPages)

Next ==
    \E p \in {"w1"} :
        \/ \E o \in Ops : \E a \in ArgsOf(o) : Call(p, o, a)
        \/ CacheLookup(p)
        \/ \E r \in PriceResponses : get_prices(p, r)
        \/ \E r \in MetricResponses : get_financial_metrics(p, r)
        \/ \E r \in LineItemResponses : search_line_items(p, r)
        \/ \E r \in DayResponses : get_insider_trades(p, r)
        \/ \E r \in DayResponses : get_company_news(p, r)
        \/ \E r \in MetricResponses : get_market_cap(p, r)
        \/ Insert(p)
        \/ Retry(p)
        \/ prices_to_df(p)

Spec == Init /\ [][Next]_vars

\* Two callers run concurrently; every step of one may fall between two
\* steps of the other.  They call a single-fetch operation and a paginated
\* one, each with one argument tuple, so that they meet on the same keys.
NextConc ==
    \E p \in Procs :
        \/ Call(p, "get_prices", Arg(1, 2, "-", 0))
        \/ Call(p, "get_insider_trades", Arg(1, 2, "-", 1))
        \/ CacheLookup(p)
        \/ \E r \in PriceResponses : get_prices(p, r)
        \/ \E r \in DayResponses : get_insider_trades(p, r)
        \/ Insert(p)
        \/ Retry(p)

SpecConc == Init /\ [][NextConc]_vars

\* The pagination walk of one call, against a provider that may answer each
\* page request with any list of at most two records of any dates; the
\* caller asks for pages of one or of two records.
WalkLimits == {1, 2}
Recs == {[date |-> st] : st \in Stamps}
AnyPages == SeqsUpTo(Recs, Cardinality(WalkLimits))
WalkArgs == {Arg(s, MaxDay, "-", lim) : s \in {NoDate} \cup StartDays, lim \in WalkLimits}

\* (what the operations do with the status codes is explored by Spec)
AnyResponses == Responses({0, 200}, AnyPages)

NextPag ==
    \E p \in {"w1"} :
        \/ \E o \in Paginated : \E a \in WalkArgs : ncalls = 0 /\ Call(p, o, a)
        \/ CacheLookup(p)
        \/ \E r \in AnyResponses : get_insider_trades(p, r)
        \/ \E r \in AnyResponses : get_company_news(p, r)
        \/ Insert(p)
        \/ Retry(p)

SpecPag == Init /\ [][NextPag]_vars

\* ======================================================================
\* Properties
\* ======================================================================
Last(q) == q[Len(q)]

\* C1 (cache idempotence): a call that repeats, with identical parameters,
\* the call its caller made just before, when that call returned and stored
\* a batch, issues no network request, is not thrown out of the hit path,
\* and returns what the first call returned.
CacheIdempotence ==
    \A p \in Procs :
        (obs[p].repeat /\ obs[p].prior.val # <<>>) =>
            /\ obs[p].asked = <<>>
            /\ frame[p].pc \notin {"backoff", "raised"}
            /\ (frame[p].pc = "returned" => frame[p].result = obs[p].prior)

\* C2 (exact-match keying): the batch stored under a key was fetched with
\* exactly the request parameters of every call that can hit that key.
ExactMatchKeying ==
    \A k \in DOMAIN cache : \A o \in Ops : \A a \in ArgsOf(o) :
        KeyOf(o, a) = k => cache[k].req = RequestOf(o, a)

\* C3 (empty-result handling): once the provider has answered a request of a
\* call with 404, that call has returned the empty sequence: no retry is
\* pending, no further request, no write.
EmptyResultHandling ==
    \A p \in Procs :
        obs[p].status = 404 =>
            /\ frame[p].pc = "returned"
            /\ frame[p].result = ListResult(<<>>)

\* C4 (market-cap derivation): when the metrics list get_market_cap fetched is
\* empty, or its first record has no market cap, the call has returned None
\* after the one fetch of that attempt.
MarketCapDerivation ==
    \A p \in Procs :
        (/\ frame[p].op = "get_market_cap"
         /\ obs[p].pages # <<>>
         /\ (Last(obs[p].pages) = <<>> \/ Last(obs[p].pages)[1].market_cap = <<>>)) =>
            /\ frame[p].pc = "returned"
            /\ frame[p].result = NoneResult
            /\ Len(obs[p].asked) = 1

\* C5 (get_market_cap reuses cached metrics): a get_market_cap call made when
\* the cache already held the metrics fetched for (ticker, end_date, ttm,
\* limit 1) issues no request, is not thrown into a retry, and returns a float.
MarketCapReusesCache ==
    \A p \in Procs :
        (frame[p].op = "get_market_cap" /\ obs[p].warm) =>
            /\ obs[p].asked = <<>>
            /\ frame[p].pc # "backoff"
            /\ (frame[p].pc = "returned" => frame[p].result.kind = "float")

\* C9 (retry on transient failure): no failure reaches the caller, and an
\* attempt whose request failed at network level, was answered 500, or whose
\* body did not decode is followed by a new attempt.
AttemptFailed(p) ==
    \/ obs[p].status \in {0, 500}
    \/ obs[p].status = 200 /\ Len(obs[p].pages) < Len(obs[p].asked)
RetryOnTransientFailure ==
    \A p \in Procs :
        /\ frame[p].pc # "raised"
        /\ (AttemptFailed(p) => frame[p].pc = "backoff")

\* C10 (concurrent-write safety): whatever the interleaving of two callers,
\* the batch a reader finds under a key is the complete list of records of
\* all pages fetched by the call that wrote it: never a prefix, never a mix.
NoTornBatch ==
    \A k \in DOMAIN cache : cache[k].batch = cache[k].whole

\* two callers missed the same key, fetched different batches and both wrote
TwoWritersSameKey ==
    \E p \in Procs : \E q \in Procs \ {p} :
        /\ frame[p].pc = "returned" /\ frame[q].pc = "returned"
        /\ frame[p].op = frame[q].op /\ frame[p].args = frame[q].args
        /\ Len(frame[p].result.val) > 1 /\ frame[q].result.val # <<>>
        /\ frame[p].result # frame[q].result
        /\ KeyOf(frame[p].op, frame[p].args) \in DOMAIN cache
        /\ cache[KeyOf(frame[p].op, frame[p].args)].batch = frame[p].result.val

\* ---- the pagination walk (SpecPag)
Walking(p) == frame[p].op \in Paginated /\ frame[p].args.start # NoDate
Full(p, page) == Len(page) = frame[p].args.limit
Short(p, page) == Len(page) < frame[p].args.limit
Terminated(p) == frame[p].pc \in {"insert", "returned"}
StampLT(a, b) == StampLE(a, b) /\ a # b

\* every page but the last is full, and the oldest date of each page is
\* strictly older than that of the page before
DecreasingFullPages(p) ==
    LET pgs == obs[p].pages
    IN  \A i \in 1..(Len(pgs) - 1) :
            /\ Full(p, pgs[i])
            /\ pgs[i + 1] # <<>> => StampLT(MinStamp(pgs[i + 1]), MinStamp(pgs[i]))

\* C6 (pagination termination): in a walk with a start_date whose pages were
\* full with strictly decreasing oldest dates up to a short page, the loop
\* has ended with that short page, and the batch accumulated, returned and
\* cached is exactly the records of every page fetched.
PaginationTermination ==
    \A p \in Procs :
        (/\ Walking(p)
         /\ obs[p].pages # <<>>
         /\ DecreasingFullPages(p)
         /\ Short(p, Last(obs[p].pages))) =>
            /\ Terminated(p)
            /\ frame[p].records = Flatten(obs[p].pages)
            /\ frame[p].pc = "returned" =>
                 /\ frame[p].result = ListResult(Flatten(obs[p].pages))
                 /\ Flatten(obs[p].pages) # <<>> =>
                      cache[KeyOf(frame[p].op, frame[p].args)].batch = Flatten(obs[p].pages)

\* a walk of a full page followed by a non-empty short page has returned
ShortPageEndsWalk ==
    \E p \in Procs :
        /\ Walking(p)
        /\ Len(obs[p].pages) >= 2
        /\ DecreasingFullPages(p)
        /\ Short(p, Last(obs[p].pages)) /\ Last(obs[p].pages) # <<>>
        /\ frame[p].pc = "returned"

NoDup(q) == \A i \in 1..Len(q) : \A j \in 1..Len(q) : i # j => q[i] # q[j]

\* the provider kept to the inclusive bounds of each request, filing_date_lte
\* = cursor and filing_date_gte = start_date, and to its limit, and repeated
\* no record within a page
Honoured(p) ==
    \A i \in 1..Len(obs[p].pages) :
        /\ NoDup(obs[p].pages[i])
        /\ Len(obs[p].pages[i]) <= frame[p].args.limit
        /\ \A j \in 1..Len(obs[p].pages[i]) :
             LET d == obs[p].pages[i][j].date[1]
             IN  /\ d <= obs[p].asked[i][1]
                 /\ frame[p].args.start # NoDate => d >= frame[p].args.start

\* C7 (no duplicates after a pagination merge): against a provider that
\* honours the inclusive date bounds of each page request, the batch a
\* paginated fetch accumulates, returns and caches holds no record twice.
NoDuplicatesAfterMerge ==
    \A p \in Procs :
        (frame[p].op \in Paginated /\ Terminated(p) /\ Honoured(p)) =>
            NoDup(frame[p].records)

\* C8 (pagination boundary): when the answer to a page request of a walk with
\* a start_date is a full page whose oldest date, cut to the day, is on or
\* before start_date, the loop has ended: no further request is pending.
PaginationBoundary ==
    \A p \in Procs :
        (/\ Walking(p)
         /\ obs[p].pages # <<>>
         /\ Len(obs[p].pages) = Len(obs[p].asked)
         /\ Full(p, Last(obs[p].pages))
         /\ MinStamp(Last(obs[p].pages))[1] <= frame[p].args.start) =>
            Terminated(p)

\* a full page whose oldest record is dated on start_date at a later time of
\* day ended the walk
BoundaryPageWithTime ==
    \E p \in Procs :
        /\ Walking(p)
        /\ obs[p].pages # <<>>
        /\ Full(p, Last(obs[p].pages))
        /\ MinStamp(Last(obs[p].pages)) = <<frame[p].args.start, 1>>
        /\ frame[p].pc = "returned"

\* C11 (no eviction): no step removes a key from the cache; a key once
\* present is present after every step, holding a complete batch.
NoEviction ==
    [][\A k \in DOMAIN cache :
          k \in DOMAIN cache' /\ cache'[k].batch = cache'[k].whole]_vars

\* a second call wrote its key while the first call's entry stayed
TwoEntriesKept == Cardinality(DOMAIN cache) >= 2

\* C12 (frame conversion leaves its input unchanged): once get_price_data has
\* built the frame, the price list is still the list the provider sent, record
\* for record and in the same order, and so is the batch in the cache; the
\* frame has one row per record and its rows ascend by date.
FrameLeavesSourceUnchanged ==
    \A p \in Procs :
        frame[p].df # <<>> =>
            LET f == frame[p]
                k == KeyOf(f.op, f.args)
            IN  /\ f.result.val = Flatten(obs[p].pages)
                /\ k \in DOMAIN cache /\ cache[k].batch = Flatten(obs[p].pages)
                /\ Len(f.df) = Len(f.result.val)
                /\ {f.df[i].time : i \in 1..Len(f.df)}
                     = {f.result.val[i].date : i \in 1..Len(f.result.val)}
                /\ \A i \in 1..Len(f.df) - 1 : f.df[i].Date <= f.df[i + 1].Date

\* a frame was built from a list that is not in ascending order of date
FrameOfUnsortedPrices ==
    \E p \in Procs :
        /\ frame[p].df # <<>>
        /\ Len(frame[p].result.val) >= 2
        /\ ~StampLE(frame[p].result.val[1].date, frame[p].result.val[2].date)

\* C13 (cache writes only on non-empty results): every entry of the cache
\* holds a non-empty batch, and a call whose fetch decoded to zero records
\* has returned the empty sequence.
WritesOnlyNonEmpty ==
    /\ \A k \in DOMAIN cache : cache[k].batch # <<>>
    /\ \A p \in Procs :
          (/\ obs[p].pages # <<>>
           /\ Len(obs[p].pages) = Len(obs[p].asked)
           /\ Flatten(obs[p].pages) = <<>>) =>
              /\ frame[p].pc \in {"returned", "keyerror"}
              /\ frame[p].result = ListResult(<<>>)

\* C14 (cursor-stall guard): when the answer to a page request of a walk with
\* a start_date is a full page whose oldest date, cut to the day, equals the
\* cursor the page was requested with and is after start_date, the loop has
\* ended: the same request is not pending again.
CursorStallGuard ==
    \A p \in Procs :
        (/\ Walking(p)
         /\ obs[p].pages # <<>>
         /\ Len(obs[p].pages) = Len(obs[p].asked)
         /\ Len(Last(obs[p].pages)) >= frame[p].args.limit
         /\ SplitT(MinStamp(Last(obs[p].pages))) = Last(obs[p].asked)
         /\ ~StampLE(Last(obs[p].asked), Day(frame[p].args.start))) =>
            Terminated(p)

\* C15 (no backward walk without a start date): an attempt of a paginated
\* fetch called without start_date issues one page request; whatever the size
\* of the page that answers it, the loop has ended.
NoWalkWithoutStartDate ==
    \A p \in Procs :
        (frame[p].op \in Paginated /\ frame[p].args.start = NoDate) =>
            /\ Len(obs[p].asked) <= 1
            /\ obs[p].pages # <<>> => Terminated(p)

\* a call without start_date returned a page of limit records
FullPageWithoutStartDate ==
    \E p \in Procs :
        /\ frame[p].op \in Paginated /\ frame[p].args.start = NoDate
        /\ obs[p].pages # <<>> /\ Full(p, Last(obs[p].pages))
        /\ frame[p].pc = "returned"

\* C16 (output order): when the loop of a paginated fetch has ended, the
\* first page was requested with cursor end_date, and the batch accumulated,
\* returned and cached is the pages in the order they were requested, each
\* page in the order the provider gave.
OutputOrder ==
    \A p \in Procs :
        (frame[p].op \in Paginated /\ Terminated(p) /\ obs[p].asked # <<>>) =>
            LET all == Flatten(obs[p].pages)
            IN  /\ obs[p].asked[1] = Day(frame[p].args.end)
                /\ frame[p].records = all
                /\ frame[p].pc = "returned" =>
                     /\ frame[p].result = ListResult(all)
                     /\ all # <<>> =>
                          cache[KeyOf(frame[p].op, frame[p].args)].batch = all

\* a walk of two different non-empty pages, the second holding the younger
\* record, has returned
TwoPagesOutOfDateOrder ==
    \E p \in Procs :
        /\ frame[p].op \in Paginated /\ frame[p].pc = "returned"
        /\ Len(obs[p].pages) = 2
        /\ obs[p].pages[1] # <<>> /\ obs[p].pages[2] # <<>>
        /\ StampLT(MinStamp(obs[p].pages[1]), MinStamp(obs[p].pages[2]))

Continues(p, prev, cursor) ==
    /\ prev # <<>>
    /\ Len(prev) >= frame[p].args.limit
    /\ frame[p].args.start # NoDate
    /\ cursor = <<MinStamp(prev)[1], 0>>
    /\ cursor[1] > frame[p].args.start

\* C18 (continuation condition): every page request after the first of an
\* attempt, issued or pending, follows a non-empty page of at least limit
\* records; its cursor is the oldest date of that page cut to the day, and is
\* after start_date.
ContinuationCondition ==
    \A p \in Procs :
        frame[p].op \in Paginated =>
            /\ \A i \in 2..Len(obs[p].asked) :
                  /\ i - 1 <= Len(obs[p].pages)
                  /\ Continues(p, obs[p].pages[i - 1], obs[p].asked[i])
            /\ (frame[p].pc = "fetch" /\ obs[p].asked # <<>>) =>
                  /\ Len(obs[p].pages) = Len(obs[p].asked)
                  /\ Continues(p, Last(obs[p].pages), frame[p].current_end_date)

\* a second page was requested after a page whose oldest record carries a
\* time of day
SecondRequestIssued ==
    \E p \in Procs :
        /\ frame[p].op \in Paginated
        /\ Len(obs[p].asked) = 2
        /\ MinStamp(obs[p].pages[1])[2] # 0

\* C19 (a retry restarts the walk): in an attempt that follows a failed
\* attempt which had collected pages, the loop starts with no records and
\* cursor end_date, its first request carries cursor end_date, and the batch
\* accumulated, returned and cached is the pages of this attempt alone.
RetryRestartsWalk ==
    \A p \in Procs :
        (frame[p].op \in Paginated /\ obs[p].lost) =>
            LET all == Flatten(obs[p].pages)
            IN  /\ (frame[p].pc = "fetch" /\ obs[p].asked = <<>>) =>
                      /\ frame[p].records = <<>>
                      /\ frame[p].current_end_date = Day(frame[p].args.end)
                /\ obs[p].asked # <<>> => obs[p].asked[1] = Day(frame[p].args.end)
                /\ Terminated(p) => frame[p].records = all
                /\ frame[p].pc = "returned" =>
                      /\ frame[p].result = ListResult(all)
                      /\ all # <<>> =>
                           cache[KeyOf(frame[p].op, frame[p].args)].batch = all

\* the attempt after one that failed with a page collected has returned a
\* batch
ReturnedAfterLostPages ==
    \E p \in Procs :
        /\ frame[p].op \in Paginated /\ obs[p].lost
        /\ frame[p].attempts >= 2
        /\ frame[p].pc = "returned" /\ frame[p].result.val # <<>>

====
